---- MODULE Spec2Model ----
(***************************************************************************)
(* A model of game.py: the ChessBoard rule engine (board, per-piece       *)
(* movement rules, check / checkmate / stalemate queries, move_piece).     *)
(*                                                                         *)
(* A Piece object is an identity 1..32 (0 is None); its color and type     *)
(* never change, its has_moved flag lives in the has_moved variable, so    *)
(* that references held by move_history alias the piece on the board as    *)
(* they do in Python.  A position string is a sequence of one-character    *)
(* strings.  A call that raises leaves ret = "ValueError" or "IndexError"  *)
(* and ends the program: no caller in game.py catches it.                  *)
(***************************************************************************)
EXTENDS Integers, Sequences, FiniteSets, TLC

VARIABLES board, current_player, move_history, has_moved, call, ret

vars == <<board, current_player, move_history, has_moved, call, ret>>

\* ------------------------------------------------------------------ bounds
\* Largest number of committed moves explored.
MaxMoves == 7

\* ------------------------------------------------------------- data model
WHITE == "white"
BLACK == "black"
Color == {WHITE, BLACK}

PAWN == "pawn"
ROOK == "rook"
KNIGHT == "knight"
BISHOP == "bishop"
QUEEN == "queen"
KING == "king"

None == 0
PieceIds == 1..32
Rows == 0..7
Cells == Rows \X Rows

piece_order == <<ROOK, KNIGHT, BISHOP, QUEEN, KING, BISHOP, KNIGHT, ROOK>>

\* Pieces are created by setup_board: 1..8 Black back rank (by column),
\* 9..16 Black pawns, 17..24 White pawns, 25..32 White back rank.
PieceColor(p) == IF p <= 16 THEN BLACK ELSE WHITE

PieceKind(p) == IF p \in 9..24 THEN PAWN ELSE piece_order[((p - 1) % 8) + 1]

setup_board ==
    [sq \in Cells |->
        IF sq[1] = 0 THEN sq[2] + 1
        ELSE IF sq[1] = 1 THEN 9 + sq[2]
        ELSE IF sq[1] = 6 THEN 17 + sq[2]
        ELSE IF sq[1] = 7 THEN 25 + sq[2]
        ELSE None]

Abs(x) == IF x < 0 THEN -x ELSE x

\* ----------------------------------------------------- notation (strings)
\* ord() of the characters used by the submitted strings.  "U+0668" names the
\* single character ARABIC-INDIC DIGIT EIGHT.
Ord ==
    ("a" :> 97) @@ ("b" :> 98) @@ ("c" :> 99) @@ ("d" :> 100) @@ ("e" :> 101)
    @@ ("f" :> 102) @@ ("g" :> 103) @@ ("h" :> 104) @@ ("i" :> 105)
    @@ ("E" :> 69) @@ ("x" :> 120)
    @@ ("0" :> 48) @@ ("1" :> 49) @@ ("2" :> 50) @@ ("3" :> 51) @@ ("4" :> 52)
    @@ ("5" :> 53) @@ ("6" :> 54) @@ ("7" :> 55) @@ ("8" :> 56) @@ ("9" :> 57)
    @@ ("U+0668" :> 1640)

\* ord(ch.lower())
LowerOrd(ch) == IF Ord[ch] \in 65..90 THEN Ord[ch] + 32 ELSE Ord[ch]

\* int(ch) raises ValueError unless ch is a decimal digit; it accepts the
\* decimal digits of every script (here ASCII and Arabic-Indic).
IsDigit(ch) == Ord[ch] \in 48..57 \/ Ord[ch] \in 1632..1641

\* int(ch) of a decimal digit.
DigitValue(ch) == IF Ord[ch] \in 48..57 THEN Ord[ch] - 48 ELSE Ord[ch] - 1632

\* position_to_coords: [raised |-> TRUE] stands for ValueError.
position_to_coords(position) ==
    IF Len(position) # 2 THEN [raised |-> TRUE, rc |-> <<0, 0>>]
    ELSE IF ~IsDigit(position[2]) THEN [raised |-> TRUE, rc |-> <<0, 0>>]
    ELSE LET col == LowerOrd(position[1]) - Ord["a"]
             row == 8 - DigitValue(position[2])
         IN  IF ~(0 <= row /\ row < 8 /\ 0 <= col /\ col < 8)
             THEN [raised |-> TRUE, rc |-> <<0, 0>>]
             ELSE [raised |-> FALSE, rc |-> <<row, col>>]

\* ------------------------------------------------------------ board reads
is_valid_position(row, col) == 0 <= row /\ row < 8 /\ 0 <= col /\ col < 8

get_piece(b, row, col) ==
    IF 0 <= row /\ row < 8 /\ 0 <= col /\ col < 8 THEN b[<<row, col>>] ELSE None

\* A Python list of length 8 accepts the indices -8..7; a negative index
\* counts from the end.
PyIndexOk(i) == -8 <= i /\ i <= 7

PyIndex(i) == IF i < 0 THEN i + 8 ELSE i

\* The while loop of is_path_clear from the cell (r, c): "True" when the
\* destination is reached, "False" at the first occupied cell, "IndexError"
\* when self.board[r][c] is indexed outside the lists.
RECURSIVE PathWalk(_, _, _, _, _, _, _)
PathWalk(b, r, c, row_dir, col_dir, to_row, to_col) ==
    IF <<r, c>> = <<to_row, to_col>> THEN "True"
    ELSE IF ~(PyIndexOk(r) /\ PyIndexOk(c)) THEN "IndexError"
    ELSE IF b[<<PyIndex(r), PyIndex(c)>>] # None THEN "False"
    ELSE PathWalk(b, r + row_dir, c + col_dir, row_dir, col_dir, to_row, to_col)

\* The raw (row, col) index pairs the while loop of is_path_clear reads from
\* the cell (r, c) on, in order, up to the read that ends it.
RECURSIVE PathReads(_, _, _, _, _, _, _)
PathReads(b, r, c, row_dir, col_dir, to_row, to_col) ==
    IF <<r, c>> = <<to_row, to_col>> THEN <<>>
    ELSE IF ~(PyIndexOk(r) /\ PyIndexOk(c)) THEN << <<r, c>> >>
    ELSE IF b[<<PyIndex(r), PyIndex(c)>>] # None THEN << <<r, c>> >>
    ELSE << <<r, c>> >>
         \o PathReads(b, r + row_dir, c + col_dir, row_dir, col_dir,
                      to_row, to_col)

\* A walk that starts on the origin itself.
is_path_clear_from_origin(b, from_row, from_col, to_row, to_col) ==
    LET row_dir == IF from_row = to_row THEN 0
                   ELSE IF to_row > from_row THEN 1 ELSE -1
        col_dir == IF from_col = to_col THEN 0
                   ELSE IF to_col > from_col THEN 1 ELSE -1
    IN  PathWalk(b, from_row, from_col, row_dir, col_dir, to_row, to_col)

is_path_clear(b, from_row, from_col, to_row, to_col) ==
    LET row_dir == IF from_row = to_row THEN 0
                   ELSE IF to_row > from_row THEN 1 ELSE -1
        col_dir == IF from_col = to_col THEN 0
                   ELSE IF to_col > from_col THEN 1 ELSE -1
    IN  PathWalk(b, from_row + row_dir, from_col + col_dir,
                 row_dir, col_dir, to_row, to_col)

\* ------------------------------------------------------- per-piece rules
is_valid_pawn_move(b, hm, from_row, from_col, to_row, to_col) ==
    LET piece == get_piece(b, from_row, from_col)
        direction == IF PieceColor(piece) = WHITE THEN -1 ELSE 1
    IN  IF from_col = to_col
        THEN IF to_row = from_row + direction
             THEN get_piece(b, to_row, to_col) = None
             ELSE IF to_row = from_row + 2 * direction /\ ~hm[piece]
             THEN get_piece(b, to_row, to_col) = None
                  /\ get_piece(b, from_row + direction, from_col) = None
             ELSE FALSE
        ELSE IF Abs(from_col - to_col) = 1 /\ to_row = from_row + direction
        THEN LET target_piece == get_piece(b, to_row, to_col)
             IN  target_piece # None
                 /\ PieceColor(target_piece) # PieceColor(piece)
        ELSE FALSE

\* The sliding rules call is_path_clear on aligned squares only, where the
\* walk ends at the destination and "IndexError" cannot occur.
\* A rook rule without its straight-line guard.
RookEntersPathAlways(from_row, from_col, to_row, to_col) == TRUE

\* The guard of is_valid_rook_move: is_path_clear is called when it holds.
RookEntersPath(from_row, from_col, to_row, to_col) ==
    ~(from_row # to_row /\ from_col # to_col)

is_valid_rook_move(b, from_row, from_col, to_row, to_col) ==
    IF ~RookEntersPath(from_row, from_col, to_row, to_col) THEN FALSE
    ELSE is_path_clear(b, from_row, from_col, to_row, to_col) = "True"

is_valid_knight_move(from_row, from_col, to_row, to_col) ==
    LET row_diff == Abs(to_row - from_row)
        col_diff == Abs(to_col - from_col)
    IN  (row_diff = 2 /\ col_diff = 1) \/ (row_diff = 1 /\ col_diff = 2)

\* A bishop that jumps over the pieces in its way.
is_valid_bishop_move_jumps(b, from_row, from_col, to_row, to_col) ==
    Abs(to_row - from_row) = Abs(to_col - from_col)

\* The guard of is_valid_bishop_move: is_path_clear is called when it holds.
BishopEntersPath(from_row, from_col, to_row, to_col) ==
    ~(Abs(to_row - from_row) # Abs(to_col - from_col))

is_valid_bishop_move(b, from_row, from_col, to_row, to_col) ==
    IF ~BishopEntersPath(from_row, from_col, to_row, to_col) THEN FALSE
    ELSE is_path_clear(b, from_row, from_col, to_row, to_col) = "True"

is_valid_queen_move(b, from_row, from_col, to_row, to_col) ==
    is_valid_rook_move(b, from_row, from_col, to_row, to_col)
    \/ is_valid_bishop_move(b, from_row, from_col, to_row, to_col)

is_valid_king_move(from_row, from_col, to_row, to_col) ==
    Abs(to_row - from_row) <= 1 /\ Abs(to_col - from_col) <= 1
    /\ ~(from_row = to_row /\ from_col = to_col)

\* A dispatch without the test on the color of the destination piece.
PieceRuleAllowsOwnTarget(b, hm, from_row, from_col, to_row, to_col) ==
    LET kind == PieceKind(get_piece(b, from_row, from_col))
    IN  IF ~is_valid_position(to_row, to_col) THEN FALSE
        ELSE IF kind = PAWN
        THEN is_valid_pawn_move(b, hm, from_row, from_col, to_row, to_col)
        ELSE IF kind = ROOK
        THEN is_valid_rook_move(b, from_row, from_col, to_row, to_col)
        ELSE IF kind = KNIGHT
        THEN is_valid_knight_move(from_row, from_col, to_row, to_col)
        ELSE IF kind = BISHOP
        THEN is_valid_bishop_move(b, from_row, from_col, to_row, to_col)
        ELSE IF kind = QUEEN
        THEN is_valid_queen_move(b, from_row, from_col, to_row, to_col)
        ELSE is_valid_king_move(from_row, from_col, to_row, to_col)

\* The part of is_valid_move after the turn test: destination in bounds, not
\* a piece of the same color, then the dispatch on the piece type.
PieceRule(b, hm, from_row, from_col, to_row, to_col) ==
    LET piece == get_piece(b, from_row, from_col)
        dest_piece == get_piece(b, to_row, to_col)
        kind == PieceKind(piece)
    IN  IF ~is_valid_position(to_row, to_col) THEN FALSE
        ELSE IF dest_piece # None /\ PieceColor(dest_piece) = PieceColor(piece)
        THEN FALSE
        ELSE IF kind = PAWN
        THEN is_valid_pawn_move(b, hm, from_row, from_col, to_row, to_col)
        ELSE IF kind = ROOK
        THEN is_valid_rook_move(b, from_row, from_col, to_row, to_col)
        ELSE IF kind = KNIGHT
        THEN is_valid_knight_move(from_row, from_col, to_row, to_col)
        ELSE IF kind = BISHOP
        THEN is_valid_bishop_move(b, from_row, from_col, to_row, to_col)
        ELSE IF kind = QUEEN
        THEN is_valid_queen_move(b, from_row, from_col, to_row, to_col)
        ELSE IF kind = KING
        THEN is_valid_king_move(from_row, from_col, to_row, to_col)
        ELSE FALSE

\* The turn test of is_valid_move: the piece must belong to current_player.
IsPlayersTurn(piece, cp) == PieceColor(piece) = cp

is_valid_move(b, cp, hm, from_row, from_col, to_row, to_col) ==
    LET piece == get_piece(b, from_row, from_col)
    IN  IF piece = None THEN FALSE
        ELSE IF ~IsPlayersTurn(piece, cp) THEN FALSE
        ELSE PieceRule(b, hm, from_row, from_col, to_row, to_col)

\* ------------------------------------------------------------------ check
KingCells(b, color) ==
    {sq \in Cells : b[sq] # None /\ PieceKind(b[sq]) = KING
                    /\ PieceColor(b[sq]) = color}

\* Row-major position of a cell in the nested range(8) loops.
ScanOrder(sq) == sq[1] * 8 + sq[2]

\* find_king raises ValueError exactly when KingCells is empty; otherwise
\* it returns the first king cell of the row-major scan.
find_king(b, color) ==
    CHOOSE sq \in KingCells(b, color) :
        \A other \in KingCells(b, color) : ScanOrder(sq) <= ScanOrder(other)

is_in_check_raises(b, color) == KingCells(b, color) = {}

\* The value is_in_check returns when find_king does not raise.
is_in_check(b, cp, hm, color) ==
    LET king == find_king(b, color)
    IN  \E sq \in Cells :
            /\ b[sq] # None
            /\ PieceColor(b[sq]) # color
            /\ is_valid_move(b, cp, hm, sq[1], sq[2], king[1], king[2])

\* ------------------------------------------------- self-check simulation
\* "Make the move" of would_be_in_check_after_move: two assignments in order.
SimulateMove(b, from, to) == [b EXCEPT ![to] = b[from], ![from] = None]

\* A restore that forgets the captured piece.
RestoreBoardDropsCaptured(b, from, to, original_piece, captured_piece) ==
    [b EXCEPT ![from] = original_piece, ![to] = None]

\* "Restore the board": two assignments in order.
RestoreBoard(b, from, to, original_piece, captured_piece) ==
    [b EXCEPT ![from] = original_piece, ![to] = captured_piece]

\* The cell self.board[r][c] designates when both indices are accepted.
PyCell(rc) == <<PyIndex(rc[1]), PyIndex(rc[2])>>

PyCellOk(rc) == PyIndexOk(rc[1]) /\ PyIndexOk(rc[2])

\* would_be_in_check_after_move: the outcome and the board it leaves behind.
\* The function indexes self.board with its arguments as they come: an index
\* outside -8..7 raises IndexError at the two reads, before any write.  When
\* is_in_check raises ValueError, the restore is not reached.
would_be_in_check_after_move(b, cp, hm, from_rc, to_rc) ==
    IF ~(PyCellOk(from_rc) /\ PyCellOk(to_rc))
    THEN [raised |-> TRUE, error |-> "IndexError", value |-> FALSE, board |-> b]
    ELSE LET from == PyCell(from_rc)
             to == PyCell(to_rc)
             original_piece == b[from]
             captured_piece == b[to]
             moved == SimulateMove(b, from, to)
         IN  IF is_in_check_raises(moved, cp)
             THEN [raised |-> TRUE, error |-> "ValueError", value |-> FALSE,
                   board |-> moved]
             ELSE [raised |-> FALSE, error |-> "",
                   value |-> is_in_check(moved, cp, hm, cp),
                   board |-> RestoreBoard(moved, from, to,
                                          original_piece, captured_piece)]

\* ------------------------------------------------------------ move_piece
\* A switch that only ever hands the turn to Black.
SwitchPlayersStuck(cp) == BLACK

\* "Switch players".
SwitchPlayers(cp) == IF cp = WHITE THEN BLACK ELSE WHITE

\* A commit that records no captured piece.
CommitMoveForgetsCaptured(b, cp, mh, hm, from_pos, to_pos, from, to) ==
    LET piece == b[from]
    IN  [ret |-> "True",
         board |-> [b EXCEPT ![to] = piece, ![from] = None],
         has_moved |-> [hm EXCEPT ![piece] = TRUE],
         move_history |-> Append(mh, [from |-> from_pos, to |-> to_pos,
                                      piece |-> piece, captured |-> None]),
         current_player |-> IF cp = WHITE THEN BLACK ELSE WHITE]

\* A commit that leaves has_moved as it was.
CommitMoveKeepsFlag(b, cp, mh, hm, from_pos, to_pos, from, to) ==
    LET piece == b[from]
        captured_piece == b[to]
    IN  [ret |-> "True",
         board |-> [b EXCEPT ![to] = piece, ![from] = None],
         has_moved |-> hm,
         move_history |-> Append(mh, [from |-> from_pos, to |-> to_pos,
                                      piece |-> piece,
                                      captured |-> captured_piece]),
         current_player |-> IF cp = WHITE THEN BLACK ELSE WHITE]

\* A commit that puts the new record in front of the history.
CommitMovePrepends(b, cp, mh, hm, from_pos, to_pos, from, to) ==
    LET piece == b[from]
        captured_piece == b[to]
    IN  [ret |-> "True",
         board |-> [b EXCEPT ![to] = piece, ![from] = None],
         has_moved |-> [hm EXCEPT ![piece] = TRUE],
         move_history |-> <<[from |-> from_pos, to |-> to_pos,
                             piece |-> piece,
                             captured |-> captured_piece]>> \o mh,
         current_player |-> IF cp = WHITE THEN BLACK ELSE WHITE]

\* The commit of move_piece (lines after both rejections).
CommitMove(b, cp, mh, hm, from_pos, to_pos, from, to) ==
    LET piece == b[from]
        captured_piece == b[to]
    IN  [ret |-> "True",
         board |-> [b EXCEPT ![to] = piece, ![from] = None],
         has_moved |-> [hm EXCEPT ![piece] = TRUE],
         move_history |-> Append(mh, [from |-> from_pos, to |-> to_pos,
                                      piece |-> piece,
                                      captured |-> captured_piece]),
         current_player |-> SwitchPlayers(cp)]

Rejected(b, cp, mh, hm) ==
    [ret |-> "False", board |-> b, has_moved |-> hm, move_history |-> mh,
     current_player |-> cp]

\* move_piece: the outcome and the state the call leaves behind.
move_piece(b, cp, mh, hm, from_pos, to_pos) ==
    LET pf == position_to_coords(from_pos)
        pt == position_to_coords(to_pos)
    IN  IF pf.raised \/ pt.raised THEN Rejected(b, cp, mh, hm)
        ELSE IF ~is_valid_move(b, cp, hm, pf.rc[1], pf.rc[2], pt.rc[1], pt.rc[2])
        THEN Rejected(b, cp, mh, hm)
        ELSE LET w == would_be_in_check_after_move(b, cp, hm, pf.rc, pt.rc)
             IN  IF w.raised
                 THEN [ret |-> w.error, board |-> w.board,
                       has_moved |-> hm, move_history |-> mh,
                       current_player |-> cp]
                 ELSE IF w.value THEN Rejected(w.board, cp, mh, hm)
                 ELSE CommitMove(w.board, cp, mh, hm, from_pos, to_pos,
                                 pf.rc, pt.rc)

\* ------------------------------------------- checkmate / stalemate scans
\* The cell numbered k by the nested range(8) loops.
CellAt(k) == <<k \div 8, k % 8>>

\* The four nested loops shared by is_checkmate and is_stalemate, resumed at
\* the origin numbered from_k after the destination numbered to_last:
\* "False" at the first trial that does not leave current_player in check,
\* "True" when the loops run out; each trial runs on the board the previous
\* one left.  An origin whose piece fails the turn test of is_valid_move is
\* skipped as a whole: is_valid_move is false for each of its destinations.
RECURSIVE ScanTrials(_, _, _, _, _, _)
ScanTrials(b, cp, hm, color, from_k, to_last) ==
    IF from_k > 63 THEN [ret |-> "True", board |-> b]
    ELSE LET from == CellAt(from_k)
             piece == b[from]
         IN  IF piece = None \/ PieceColor(piece) # color
                \/ ~IsPlayersTurn(piece, cp)
             THEN ScanTrials(b, cp, hm, color, from_k + 1, -1)
             ELSE LET T == {to \in Cells :
                              /\ ScanOrder(to) > to_last
                              /\ is_valid_move(b, cp, hm, from[1], from[2],
                                               to[1], to[2])}
                  IN  IF T = {}
                      THEN ScanTrials(b, cp, hm, color, from_k + 1, -1)
                      ELSE LET to == CHOOSE x \in T :
                                       \A y \in T : ScanOrder(x) <= ScanOrder(y)
                               w == would_be_in_check_after_move(b, cp, hm,
                                                                 from, to)
                           IN  IF w.raised
                               THEN [ret |-> w.error, board |-> w.board]
                               ELSE IF ~w.value
                               THEN [ret |-> "False", board |-> w.board]
                               ELSE ScanTrials(w.board, cp, hm, color,
                                               from_k, ScanOrder(to))

is_checkmate(b, cp, hm, color) ==
    IF is_in_check_raises(b, color) THEN [ret |-> "ValueError", board |-> b]
    ELSE IF ~is_in_check(b, cp, hm, color) THEN [ret |-> "False", board |-> b]
    ELSE ScanTrials(b, cp, hm, color, 0, -1)

\* A stalemate test that forgets to exclude a king in check.
is_stalemate_ignores_check(b, cp, hm, color) ==
    IF is_in_check_raises(b, color) THEN [ret |-> "ValueError", board |-> b]
    ELSE ScanTrials(b, cp, hm, color, 0, -1)

is_stalemate(b, cp, hm, color) ==
    IF is_in_check_raises(b, color) THEN [ret |-> "ValueError", board |-> b]
    ELSE IF is_in_check(b, cp, hm, color) THEN [ret |-> "False", board |-> b]
    ELSE ScanTrials(b, cp, hm, color, 0, -1)

Bool(x) == IF x THEN "True" ELSE "False"

\* ----------------------------------------------------------- the callers
\* The position strings callers submit.
P(file, rank) == <<file, rank>>

\* Pairs of position strings submitted to move_piece.
MovePool ==
    { <<P("e", "2"), P("e", "4")>>, <<P("e", "7"), P("e", "5")>>,
      <<P("f", "1"), P("c", "4")>>, <<P("b", "8"), P("c", "6")>>,
      <<P("d", "1"), P("h", "5")>>, <<P("g", "8"), P("f", "6")>>,
      <<P("h", "5"), P("f", "7")>>, <<P("f", "7"), P("f", "6")>>,
      <<P("h", "5"), P("e", "8")>>, <<P("E", "8"), P("f", "7")>>,
      <<P("d", "1"), P("d", "1")>>, <<P("f", "6"), P("f", "4")>>,
      <<P("h", "5"), P("e", "U+0668")>>,
      <<P("i", "9"), P("e", "4")>>, <<P("e", "2"), P("e", "0")>>,
      <<P("e", "x"), P("e", "4")>>, <<<<"e">>, P("e", "4")>> }

\* Pairs of cells passed directly to would_be_in_check_after_move: a capture
\* (e2 onto f7), an empty origin (e4 onto e2, e4 onto e1), from = to, and
\* coordinates outside 0..7.
ProbePool ==
    { << <<6, 4>>, <<1, 5>> >>, << <<4, 4>>, <<6, 4>> >>,
      << <<4, 4>>, <<7, 4>> >>, << <<6, 4>>, <<6, 4>> >>,
      << <<0, 4>>, <<1, 5>> >>,
      << <<-1, 4>>, <<4, 4>> >>, << <<8, 0>>, <<0, 0>> >> }

\* Pairs of cells passed directly to is_path_clear: the d1-h5 diagonal both
\* ways, and coordinates outside 0..7.
PathPool ==
    { << <<7, 3>>, <<3, 7>> >>, << <<3, 7>>, <<7, 3>> >>,
      << <<2, -2>>, <<2, 1>> >>, << <<3, 0>>, <<3, 9>> >> }

\* Pairs of cells passed directly to is_valid_move: a null move (d1 onto d1),
\* a rule-conforming move (e2 onto e4), coordinates outside 0..7.
ValidPool ==
    { << <<7, 3>>, <<7, 3>> >>, << <<6, 4>>, <<4, 4>> >>,
      << <<-1, 4>>, <<4, 4>> >>, << <<6, 4>>, <<8, 4>> >> }

\* ------------------------------------------------------------ the system
Init ==
    /\ board = setup_board
    /\ current_player = WHITE
    /\ move_history = <<>>
    /\ has_moved = [p \in PieceIds |-> FALSE]
    /\ call = [op |-> "__init__", args |-> <<>>]
    /\ ret = "None"

Running == ret \notin {"ValueError", "IndexError"}

MovePiece(from_pos, to_pos) ==
    /\ Running
    /\ Len(move_history) < MaxMoves
    /\ LET r == move_piece(board, current_player, move_history, has_moved,
                           from_pos, to_pos)
       IN  /\ board' = r.board
           /\ current_player' = r.current_player
           /\ move_history' = r.move_history
           /\ has_moved' = r.has_moved
           /\ ret' = r.ret
    /\ call' = [op |-> "move_piece", args |-> <<from_pos, to_pos>>]

IsInCheck(color) ==
    /\ Running
    /\ ret' = IF is_in_check_raises(board, color) THEN "ValueError"
              ELSE Bool(is_in_check(board, current_player, has_moved, color))
    /\ call' = [op |-> "is_in_check", args |-> <<color>>]
    /\ UNCHANGED <<board, current_player, move_history, has_moved>>

IsCheckmate(color) ==
    /\ Running
    /\ LET r == is_checkmate(board, current_player, has_moved, color)
       IN  board' = r.board /\ ret' = r.ret
    /\ call' = [op |-> "is_checkmate", args |-> <<color>>]
    /\ UNCHANGED <<current_player, move_history, has_moved>>

IsStalemate(color) ==
    /\ Running
    /\ LET r == is_stalemate(board, current_player, has_moved, color)
       IN  board' = r.board /\ ret' = r.ret
    /\ call' = [op |-> "is_stalemate", args |-> <<color>>]
    /\ UNCHANGED <<current_player, move_history, has_moved>>

WouldBeInCheckAfterMove(from, to) ==
    /\ Running
    /\ LET w == would_be_in_check_after_move(board, current_player, has_moved,
                                             from, to)
       IN  /\ board' = w.board
           /\ ret' = IF w.raised THEN w.error ELSE Bool(w.value)
    /\ call' = [op |-> "would_be_in_check_after_move", args |-> <<from, to>>]
    /\ UNCHANGED <<current_player, move_history, has_moved>>

IsPathClear(from, to) ==
    /\ Running
    /\ ret' = is_path_clear(board, from[1], from[2], to[1], to[2])
    /\ call' = [op |-> "is_path_clear", args |-> <<from, to>>]
    /\ UNCHANGED <<board, current_player, move_history, has_moved>>

IsValidMove(from, to) ==
    /\ Running
    /\ ret' = Bool(is_valid_move(board, current_player, has_moved,
                                 from[1], from[2], to[1], to[2]))
    /\ call' = [op |-> "is_valid_move", args |-> <<from, to>>]
    /\ UNCHANGED <<board, current_player, move_history, has_moved>>

Next ==
    \/ \E m \in MovePool : MovePiece(m[1], m[2])
    \/ \E color \in Color : IsInCheck(color)
    \/ \E color \in Color : IsCheckmate(color)
    \/ \E color \in Color : IsStalemate(color)
    \/ \E m \in ProbePool : WouldBeInCheckAfterMove(m[1], m[2])
    \/ \E m \in PathPool : IsPathClear(m[1], m[2])
    \/ \E m \in ValidPool : IsValidMove(m[1], m[2])

Spec == Init /\ [][Next]_vars

\* =================================================================== claims
Opponent(c) == IF c = WHITE THEN BLACK ELSE WHITE

\* Some piece of the other color satisfies its movement rule (destination in
\* bounds, not same-colored, geometry, path clearance) onto c's king.
Attacked(b, hm, c) ==
    /\ KingCells(b, c) # {}
    /\ LET king == find_king(b, c)
       IN  \E sq \in Cells :
               /\ b[sq] # None
               /\ PieceColor(b[sq]) # c
               /\ PieceRule(b, hm, sq[1], sq[2], king[1], king[2])

\* Some piece of color c has a rule-conforming move after which c's king is
\* not attacked.
HasSafeMove(b, hm, c) ==
    \E from \in Cells :
        /\ b[from] # None
        /\ PieceColor(b[from]) = c
        /\ \E to \in Cells :
               /\ PieceRule(b, hm, from[1], from[2], to[1], to[2])
               /\ ~Attacked(SimulateMove(b, from, to), hm, c)

\* The (from, to) strings of the committed moves, in order.
HistoryMoves == [i \in 1..Len(move_history) |->
                    <<move_history[i].from, move_history[i].to>>]

Committed == call.op = "move_piece" /\ ret = "True"

\* C1 (as claimed): move_piece never commits a move after which the mover's
\* own king stands on a square an opposing piece could move to.
C1_SelfCheckNeverCommitted ==
    Committed => ~Attacked(board, has_moved, Opponent(current_player))

\* C2 (as claimed): in every state and for either color c, is_in_check(c) is
\* true exactly when some opposing piece satisfies its movement rule onto the
\* square of c's king.
C2_IsInCheckEitherColor ==
    Running =>
        \A c \in Color :
            KingCells(board, c) # {} =>
                (is_in_check(board, current_player, has_moved, c)
                 <=> Attacked(board, has_moved, c))

\* C3 (as claimed): is_checkmate(c) is true exactly when c's king is attacked
\* and no rule-conforming move of c leaves it un-attacked.
C3_IsCheckmateIff ==
    Running =>
        \A c \in Color :
            KingCells(board, c) # {} =>
                (is_checkmate(board, current_player, has_moved, c).ret = "True"
                 <=> (Attacked(board, has_moved, c)
                      /\ ~HasSafeMove(board, has_moved, c)))

ScholarsMate ==
    << <<P("e", "2"), P("e", "4")>>, <<P("e", "7"), P("e", "5")>>,
       <<P("f", "1"), P("c", "4")>>, <<P("b", "8"), P("c", "6")>>,
       <<P("d", "1"), P("h", "5")>>, <<P("g", "8"), P("f", "6")>>,
       <<P("h", "5"), P("f", "7")>> >>

\* C4 (as claimed): once the seven scholar's-mate moves have been committed
\* from the initial setup, is_checkmate(Black) is true.
C4_ScholarsMateIsCheckmate ==
    (Committed /\ HistoryMoves = ScholarsMate) =>
        is_checkmate(board, current_player, has_moved, BLACK).ret = "True"

\* C5 (as claimed): a move_piece call that does not commit leaves the 64
\* cells, current_player and move_history as they were.
C5_NoMutationOnRejection ==
    [][(call'.op = "move_piece" /\ ret' # "True") =>
          (board' = board /\ current_player' = current_player
           /\ move_history' = move_history)]_vars

\* The turn after n committed moves.
TurnAfter(n) == IF n % 2 = 0 THEN WHITE ELSE BLACK

\* C6: current_player starts as White, flips exactly when a move_piece call
\* commits and is unchanged by every rejected call, so the movers of the
\* committed moves alternate White, Black, White, ...
C6_TurnAlternation ==
    /\ [](/\ current_player = TurnAfter(Len(move_history))
          /\ \A i \in 1..Len(move_history) :
                 PieceColor(move_history[i].piece) = TurnAfter(i - 1))
    /\ [][call'.op = "move_piece" =>
            /\ ret' = "True" => current_player' = Opponent(current_player)
            /\ ret' # "True" => current_player' = current_player]_vars

\* C6 witness: a rejected move_piece call after both colors have moved.
C6_Witness ==
    call.op = "move_piece" /\ ret = "False" /\ Len(move_history) >= 2

\* C7 (as claimed): every state reached by move_piece calls holds exactly one
\* White king and exactly one Black king.
C7_OneKingEach ==
    Running => \A c \in Color : Cardinality(KingCells(board, c)) = 1

\* C8 (as claimed): when the check evaluation inside
\* would_be_in_check_after_move fails with the king not found, the board after
\* the failed call equals the board before it.
C8_RestoredOnFailure ==
    [][ret' = "ValueError" => board' = board]_vars

\* C9: a would_be_in_check_after_move call on in-range cells whose check
\* evaluation completes leaves the 64 cells, current_player, move_history and
\* every has_moved flag as they were, call after call.
C9_SelfCheckRestoration ==
    [][(call'.op = "would_be_in_check_after_move" /\ ret' \in {"True", "False"})
          => (board' = board /\ current_player' = current_player
              /\ move_history' = move_history /\ has_moved' = has_moved)]_vars

\* C9 witness: a completed call whose origin held a piece and whose
\* destination held another one (a simulated capture).
C9_Witness ==
    /\ call.op = "would_be_in_check_after_move"
    /\ ret \in {"True", "False"}
    /\ call.args[1] \in Cells /\ call.args[2] \in Cells
    /\ call.args[1] # call.args[2]
    /\ board[call.args[1]] # None
    /\ board[call.args[2]] # None

\* C10 (as claimed): is_stalemate(c) is true exactly when c's king is not
\* attacked and no rule-conforming move of c leaves it un-attacked.
C10_IsStalemateIff ==
    Running =>
        \A c \in Color :
            KingCells(board, c) # {} =>
                (is_stalemate(board, current_player, has_moved, c).ret = "True"
                 <=> (~Attacked(board, has_moved, c)
                      /\ ~HasSafeMove(board, has_moved, c)))

\* C11: in every state and for each color c, is_checkmate(c) and
\* is_stalemate(c) evaluated on that state are never both true.
C11_StalemateExclusivity ==
    Running =>
        \A c \in Color :
            ~(/\ is_checkmate(board, current_player, has_moved, c).ret = "True"
              /\ is_stalemate(board, current_player, has_moved, c).ret = "True")

\* C11 witness: a state where is_checkmate(c) is true for some color, so the
\* stalemate test has to say false there.
C11_Witness ==
    /\ Running
    /\ \E c \in Color :
           /\ is_checkmate(board, current_player, has_moved, c).ret = "True"
           /\ is_stalemate(board, current_player, has_moved, c).ret = "False"

\* The cell a submitted position string designates (when it parses).
CellOf(position) == position_to_coords(position).rc

Parses(position) == ~position_to_coords(position).raised

\* C12: when move_piece commits, the record appended to move_history has
\* 'from' / 'to' equal to the submitted strings, 'piece' equal to the mover
\* and 'captured' equal to exactly the piece that stood on the destination
\* (None when it was empty); the mover stands on the destination and a
\* captured piece occupies no cell afterwards.
C12_CaptureUpdatesHistory ==
    [][(call'.op = "move_piece" /\ ret' = "True") =>
          LET from == CellOf(call'.args[1])
              to == CellOf(call'.args[2])
              rec == move_history'[Len(move_history')]
          IN  /\ rec.from = call'.args[1]
              /\ rec.to = call'.args[2]
              /\ rec.piece = board[from]
              /\ rec.captured = board[to]
              /\ board'[to] = board[from]
              /\ board[to] # None =>
                     \A sq \in Cells : board'[sq] # board[to]]_vars

\* C12 witness: a committed capture, the captured piece gone from the board.
C12_Witness ==
    /\ Committed
    /\ move_history[Len(move_history)].captured # None
    /\ \A sq \in Cells : board[sq] # move_history[Len(move_history)].captured

\* The piece p has made a committed move.
Moved(p) == \E i \in 1..Len(move_history) : move_history[i].piece = p

Forward(p) == IF PieceColor(p) = WHITE THEN -1 ELSE 1

\* A two-square forward advance of the pawn standing on from.
TwoStep(from, to) ==
    /\ board[from] # None
    /\ PieceKind(board[from]) = PAWN
    /\ to[2] = from[2]
    /\ to[1] = from[1] + 2 * Forward(board[from])

Between(from, to) == <<from[1] + Forward(board[from]), from[2]>>

\* C13: a pawn that has made a committed move is never allowed a two-square
\* advance: is_valid_move is false for it and move_piece rejects the attempt,
\* leaving the state unchanged; a two-square advance is accepted only for a
\* pawn that has never moved, with the intermediate and destination cells
\* empty.
C13_NoDoubleStepAfterMove ==
    /\ [](\A from \in Cells :
              (board[from] # None /\ PieceKind(board[from]) = PAWN) =>
                  LET to == <<from[1] + 2 * Forward(board[from]), from[2]>>
                  IN  (/\ to \in Cells
                       /\ TwoStep(from, to)
                       /\ is_valid_move(board, current_player, has_moved,
                                        from[1], from[2], to[1], to[2]))
                      => (/\ ~Moved(board[from])
                          /\ board[to] = None
                          /\ board[Between(from, to)] = None))
    /\ [][(/\ call'.op = "move_piece"
           /\ Parses(call'.args[1]) /\ Parses(call'.args[2])
           /\ TwoStep(CellOf(call'.args[1]), CellOf(call'.args[2])))
          => LET from == CellOf(call'.args[1])
                 to == CellOf(call'.args[2])
             IN  IF Moved(board[from])
                 THEN /\ ret' = "False"
                      /\ UNCHANGED <<board, current_player, move_history,
                                     has_moved>>
                 ELSE ret' = "True" =>
                          (board[to] = None
                           /\ board[Between(from, to)] = None)]_vars

\* C13 witness: a rejected two-square advance of a pawn of the player to
\* move that has moved before, over two empty cells.
C13_Witness ==
    /\ call.op = "move_piece" /\ ret = "False"
    /\ Parses(call.args[1]) /\ Parses(call.args[2])
    /\ LET from == CellOf(call.args[1])
           to == CellOf(call.args[2])
       IN  /\ TwoStep(from, to)
           /\ PieceColor(board[from]) = current_player
           /\ Moved(board[from])
           /\ board[to] = None
           /\ board[Between(from, to)] = None

\* A position string that is exactly a file letter a-h (either case)
\* followed by a rank digit 1-8.
WellFormed(position) ==
    /\ Len(position) = 2
    /\ position[1] \in {"a", "b", "c", "d", "e", "f", "g", "h",
                        "A", "B", "C", "D", "E", "F", "G", "H"}
    /\ position[2] \in {"1", "2", "3", "4", "5", "6", "7", "8"}

\* C14 (as claimed): a move_piece call whose from or to string is not a file
\* letter a-h followed by a rank digit 1-8 returns False without raising and
\* leaves the state unchanged.
C14_InvalidNotationRejected ==
    [][(/\ call'.op = "move_piece"
        /\ (~WellFormed(call'.args[1]) \/ ~WellFormed(call'.args[2])))
          => (/\ ret' = "False"
              /\ UNCHANGED <<board, current_player, move_history,
                             has_moved>>)]_vars

\* C15 (as claimed): is_valid_move, is_path_clear and
\* would_be_in_check_after_move answer False when a row or a column of the
\* origin or of the destination lies outside 0..7.
C15_OutOfRangeRejected ==
    (/\ call.op \in {"is_valid_move", "is_path_clear",
                     "would_be_in_check_after_move"}
     /\ (call.args[1] \notin Cells \/ call.args[2] \notin Cells))
        => ret = "False"

\* The records of the history with the flags of the pieces they refer to.
HistoryView(mh, hm) ==
    [i \in 1..Len(mh) |->
        [rec |-> mh[i],
         piece_has_moved |-> hm[mh[i].piece],
         captured_has_moved |->
             IF mh[i].captured = None THEN FALSE ELSE hm[mh[i].captured]]]

\* C16: move_history starts empty and changes only by one record appended at
\* its end on each committed move_piece call; the records it already holds
\* (and the pieces they refer to) are never altered, reordered or removed;
\* rejected calls and queries leave it unchanged.
C16_HistoryAppendOnly ==
    /\ [](call.op = "__init__" => move_history = <<>>)
    /\ [][LET old == HistoryView(move_history, has_moved)
              new == HistoryView(move_history', has_moved')
          IN  IF call'.op = "move_piece" /\ ret' = "True"
              THEN /\ Len(new) = Len(old) + 1
                   /\ SubSeq(new, 1, Len(old)) = old
              ELSE new = old]_vars

\* C16 witness: a commit onto a history that already held two records.
C16_Witness == Committed /\ Len(move_history) >= 3

Sgn(x) == IF x > 0 THEN 1 ELSE IF x < 0 THEN -1 ELSE 0

Max(x, y) == IF x >= y THEN x ELSE y

\* a and b lie on a common row, column or diagonal.
Aligned(a, b) ==
    a[1] = b[1] \/ a[2] = b[2] \/ Abs(a[1] - b[1]) = Abs(a[2] - b[2])

\* The squares strictly between two aligned squares.
StrictlyBetween(a, b) ==
    {<<a[1] + k * Sgn(b[1] - a[1]), a[2] + k * Sgn(b[2] - a[2])>> :
        k \in 1..(Max(Abs(b[1] - a[1]), Abs(b[2] - a[2])) - 1)}

ClearBetween(b, from, to) == \A sq \in StrictlyBetween(from, to) : b[sq] = None

\* C17: on the board at hand, for every pair of in-range aligned squares a, b,
\* is_path_clear(a, b) equals is_path_clear(b, a), and both are true exactly
\* when every square strictly between a and b is empty (whatever stands on a
\* and b themselves).
C17_PathClearSymmetry ==
    call.op = "is_path_clear" =>
        \A a \in Cells, b \in Cells :
            Aligned(a, b) =>
                LET ab == is_path_clear(board, a[1], a[2], b[1], b[2])
                    ba == is_path_clear(board, b[1], b[2], a[1], a[2])
                IN  /\ ab = ba
                    /\ ab = "True" <=> ClearBetween(board, a, b)

\* C17 witness: is_path_clear answered True from an occupied square over at
\* least one square in between.
C17_Witness ==
    /\ call.op = "is_path_clear" /\ ret = "True"
    /\ call.args[1] \in Cells /\ call.args[2] \in Cells
    /\ board[call.args[1]] # None
    /\ StrictlyBetween(call.args[1], call.args[2]) # {}

\* The rule book for the piece standing on from.
RuleBook(b, cp, hm, from, to) ==
    /\ b[from] # None
    /\ PieceColor(b[from]) = cp
    /\ ~(b[to] # None /\ PieceColor(b[to]) = PieceColor(b[from]))
    /\ LET p == b[from]
           kind == PieceKind(p)
           dr == to[1] - from[1]
           dc == to[2] - from[2]
           fwd == IF PieceColor(p) = WHITE THEN -1 ELSE 1
       IN  \/ /\ kind = PAWN
              /\ \/ dc = 0 /\ dr = fwd /\ b[to] = None
                 \/ /\ dc = 0 /\ dr = 2 * fwd /\ ~hm[p]
                    /\ b[to] = None /\ b[<<from[1] + fwd, from[2]>>] = None
                 \/ /\ Abs(dc) = 1 /\ dr = fwd
                    /\ b[to] # None /\ PieceColor(b[to]) # PieceColor(p)
           \/ /\ kind = ROOK
              /\ (dr = 0 \/ dc = 0) /\ ClearBetween(b, from, to)
           \/ /\ kind = BISHOP
              /\ Abs(dr) = Abs(dc) /\ ClearBetween(b, from, to)
           \/ /\ kind = QUEEN
              /\ (dr = 0 \/ dc = 0 \/ Abs(dr) = Abs(dc))
              /\ ClearBetween(b, from, to)
           \/ /\ kind = KNIGHT
              /\ <<Abs(dr), Abs(dc)>> \in {<<2, 1>>, <<1, 2>>}
           \/ /\ kind = KING
              /\ Abs(dr) <= 1 /\ Abs(dc) <= 1 /\ from # to

\* C18: on the board at hand, for every in-range from and to, is_valid_move is
\* true exactly when from holds a piece of the player to move, to does not
\* hold a piece of the same color, and the rule of the piece holds.
C18_ValidMoveMatchesRuleBook ==
    call.op = "is_valid_move" =>
        \A from \in Cells, to \in Cells :
            is_valid_move(board, current_player, has_moved,
                          from[1], from[2], to[1], to[2])
            <=> RuleBook(board, current_player, has_moved, from, to)

\* C18 witness: is_valid_move answered True for in-range squares.
C18_Witness ==
    /\ call.op = "is_valid_move" /\ ret = "True"
    /\ call.args[1] \in Cells /\ call.args[2] \in Cells

\* C19: is_valid_move(s, s) is false for every square s, whatever stands on
\* it, and a move_piece call whose from and to designate the same square is
\* rejected with the state unchanged.
C19_NullMovesIllegal ==
    /\ [](\A sq \in Cells :
              ~is_valid_move(board, current_player, has_moved,
                             sq[1], sq[2], sq[1], sq[2]))
    /\ [][(/\ call'.op = "move_piece"
           /\ Parses(call'.args[1]) /\ Parses(call'.args[2])
           /\ CellOf(call'.args[1]) = CellOf(call'.args[2]))
          => (/\ ret' = "False"
              /\ UNCHANGED <<board, current_player, move_history,
                             has_moved>>)]_vars

\* C19 witness: a rejected null move of a queen of the player to move.
C19_Witness ==
    /\ call.op = "move_piece" /\ ret = "False"
    /\ Parses(call.args[1]) /\ Parses(call.args[2])
    /\ CellOf(call.args[1]) = CellOf(call.args[2])
    /\ board[CellOf(call.args[1])] # None
    /\ PieceKind(board[CellOf(call.args[1])]) = QUEEN
    /\ PieceColor(board[CellOf(call.args[1])]) = current_player

\* is_valid_move(from, to) gets as far as a call of is_path_clear.
EntersPath(b, cp, hm, from, to) ==
    /\ b[from] # None
    /\ IsPlayersTurn(b[from], cp)
    /\ ~(b[to] # None /\ PieceColor(b[to]) = PieceColor(b[from]))
    /\ LET kind == PieceKind(b[from])
       IN  \/ /\ kind \in {ROOK, QUEEN}
              /\ RookEntersPath(from[1], from[2], to[1], to[2])
           \/ /\ kind = BISHOP
              /\ BishopEntersPath(from[1], from[2], to[1], to[2])
           \/ /\ kind = QUEEN
              /\ ~is_valid_rook_move(b, from[1], from[2], to[1], to[2])
              /\ BishopEntersPath(from[1], from[2], to[1], to[2])

\* The reads of the walk of is_path_clear(from, to).
WalkReads(b, from, to) ==
    PathReads(b, from[1] + Sgn(to[1] - from[1]), from[2] + Sgn(to[2] - from[2]),
              Sgn(to[1] - from[1]), Sgn(to[2] - from[2]), to[1], to[2])

\* C20: whenever is_valid_move reaches is_path_clear with in-range origin and
\* destination, the two squares are aligned, the walk ends within 7 steps
\* without an IndexError, and it reads only cells with row and column in 0..7.
C20_PathWalkInBounds ==
    \A from \in Cells :
        board[from] # None =>
            \A to \in Cells :
                EntersPath(board, current_player, has_moved, from, to) =>
                    LET reads == WalkReads(board, from, to)
                    IN  /\ Aligned(from, to)
                        /\ is_path_clear(board, from[1], from[2], to[1], to[2])
                           \in {"True", "False"}
                        /\ Len(reads) <= 7
                        /\ \A i \in 1..Len(reads) : reads[i] \in Cells

\* C20 witness: a queen of the player to move whose walk over at least three
\* cells reaches its destination.
C20_Witness ==
    \E from \in Cells :
        /\ board[from] # None
        /\ PieceKind(board[from]) = QUEEN
        /\ \E to \in Cells :
               /\ EntersPath(board, current_player, has_moved, from, to)
               /\ Len(WalkReads(board, from, to)) >= 3
               /\ is_path_clear(board, from[1], from[2], to[1], to[2]) = "True"

====
